---- MODULE Spec2Model ----
(***************************************************************************)
(* Contour integral quadrature (gpytorch/utils/contour_integral_quad.py).  *)
(*                                                                         *)
(* One call of contour_integral_quad is the pure operator CIQ: it maps the *)
(* arguments and the diagnostics flag to the outcome (returned tuple or    *)
(* raised exception), the writes to settings.record_ciq_stats and a log of *)
(* what the call invoked.  The state machine makes calls one after the     *)
(* other against the process-wide diagnostics record.                      *)
(*                                                                         *)
(* Tensors are modelled by their batch shape (zero or one batch dimension),*)
(* their entries per flattened batch element, and the storage they live in *)
(* (views share the storage of their base).  Quantities produced by the    *)
(* special functions and by the solver are symbolic terms over the values  *)
(* they are computed from.                                                 *)
(***************************************************************************)
EXTENDS Integers, Sequences, FiniteSets, TLC

\* Largest batch size of the operator and of the right-hand side.
MaxBatch == 2
\* Largest num_contour_quadrature.
MaxQuad == 2

(***************************************************************************)
(* Floats: exact rationals plus nan and +-inf, as torch true division and  *)
(* mean produce them.                                                      *)
(***************************************************************************)
Abs(n) == IF n < 0 THEN 0 - n ELSE n

RECURSIVE Gcd(_, _)
Gcd(a, b) == IF b = 0 THEN a ELSE Gcd(b, a % b)

NaN == [kind |-> "nan", num |-> 0, den |-> 0]

Inf(sign) == [kind |-> "inf", num |-> sign, den |-> 0]

Fin(n, d) ==
    LET g == Gcd(Abs(n), Abs(d))
        s == IF d < 0 THEN 0 - 1 ELSE 1
    IN  [kind |-> "fin", num |-> (s * n) \div g, den |-> (s * d) \div g]

\* a / b on tensors (IEEE: x/0 is +-inf, 0/0 is nan).
TrueDiv(a, b) ==
    IF b # 0 THEN Fin(a, b)
    ELSE IF a = 0 THEN NaN
    ELSE Inf(IF a > 0 THEN 1 ELSE 0 - 1)

FAdd(x, y) ==
    CASE x.kind = "nan" \/ y.kind = "nan" -> NaN
      [] x.kind = "inf" /\ y.kind = "inf" -> IF x.num = y.num THEN x ELSE NaN
      [] x.kind = "inf" -> x
      [] y.kind = "inf" -> y
      [] OTHER -> Fin(x.num * y.den + y.num * x.den, x.den * y.den)

RECURSIVE FSum(_)
FSum(xs) == IF xs = <<>> THEN Fin(0, 1) ELSE FAdd(Head(xs), FSum(Tail(xs)))

\* k2.mean()
Mean(xs) ==
    LET s == FSum(xs)
    IN  IF s.kind = "fin" THEN Fin(s.num, s.den * Len(xs)) ELSE s

(***************************************************************************)
(* Shapes and tensors.                                                     *)
(***************************************************************************)
None == [kind |-> "None"]

IsNone(x) == x.kind = "None"

Numel(shape) == IF shape = <<>> THEN 1 ELSE shape[1]

BatchShapes == {<<>>} \cup {<<n>> : n \in 1..MaxBatch}

\* _mul_broadcast_shape(a, b) for broadcastable shapes.
MulBroadcastShape(a, b) ==
    IF a = <<>> THEN b
    ELSE IF b = <<>> THEN a
    ELSE IF a[1] = 1 THEN b
    ELSE a

Broadcastable(a, b) ==
    IF a = <<>> THEN TRUE
    ELSE IF b = <<>> THEN TRUE
    ELSE IF a[1] = 1 THEN TRUE
    ELSE IF b[1] = 1 THEN TRUE
    ELSE a = b

\* Index of the entry of a tensor with `numel` batch entries that output
\* batch element o reads under broadcasting.
Bidx(numel, o) == IF numel = 1 THEN 1 ELSE o

Tensor(store, shape, rows) ==
    [kind |-> "tensor", store |-> store, batch_shape |-> shape, rows |-> rows]

Zero == [fn |-> "const", val |-> 0]

SeqMin(s) == CHOOSE x \in {s[i] : i \in 1..Len(s)} :
                \A j \in 1..Len(s) : x <= s[j]

SeqMax(s) == CHOOSE x \in {s[i] : i \in 1..Len(s)} :
                \A j \in 1..Len(s) : x >= s[j]

(***************************************************************************)
(* The implicit operator K (lazy_tensor).  Each batch element is given by  *)
(* what the engine reads from it: the eigenvalues of the Lanczos           *)
(* tridiagonal matrix obtained for it (lanczos_mat.symeig()[0], ascending) *)
(* and its diagonal (lazy_tensor.diag()).                                  *)
(***************************************************************************)
Elements ==
    { [eigs |-> <<1, 2>>, diag |-> <<1, 1>>],
      [eigs |-> <<0, 2>>, diag |-> <<1, 2>>],
      [eigs |-> <<0 - 1, 2>>, diag |-> <<2, 0>>],
      [eigs |-> <<0 - 1, 1>>, diag |-> <<0 - 1, 1>>] }

LazyTensors ==
    UNION { [batch_shape : {sh}, elems : [1..Numel(sh) -> Elements]] :
            sh \in BatchShapes }

\* The right-hand side b; its batch entries are told apart by their index.
Rhs(shape) ==
    [store |-> "rhs", batch_shape |-> shape,
     data |-> [i \in 1..Numel(shape) |-> i]]

\* NonLazyVariable.diag / lazy_tensor.diag(): the diagonal per batch element.
Diag(lazy_tensor) ==
    [b \in 1..Numel(lazy_tensor.batch_shape) |-> lazy_tensor.elems[b].diag]

\* lanczos_mat.symeig()[0]: the tridiagonal eigenvalues per batch element.
Symeig(lazy_tensor) ==
    [b \in 1..Numel(lazy_tensor.batch_shape) |-> lazy_tensor.elems[b].eigs]

(***************************************************************************)
(* Shift/weight derivation, lines 34-106.                                  *)
(***************************************************************************)
\* num_extra_dims = max(0, rhs.dim() - lazy_tensor.dim())
NumExtraDims(lazy_tensor, rhs) ==
    LET d == Len(rhs.batch_shape) - Len(lazy_tensor.batch_shape)
    IN  IF d > 0 THEN d ELSE 0

\* Batch shape of rhs[(0,) * num_extra_dims, ..., :, :1].
InitVecsShape(lazy_tensor, rhs) ==
    SubSeq(rhs.batch_shape, NumExtraDims(lazy_tensor, rhs) + 1,
           Len(rhs.batch_shape))

\* .expand(*lazy_tensor.shape[:-1], 1) succeeds iff every batch dimension of
\* the seed is 1 or already the operator's; otherwise torch raises.
InitVecsExpandOk(lazy_tensor, rhs) ==
    LET s == InitVecsShape(lazy_tensor, rhs)
    IN  IF s = <<>> THEN TRUE
        ELSE IF s[1] = 1 THEN TRUE
        ELSE s = lazy_tensor.batch_shape

\* approx_eigs.min(): the minimum over the whole tensor, every batch element
\* included.
GlobalMin(eigs) == SeqMin([b \in 1..Len(eigs) |-> SeqMin(eigs[b])])

\* Variant: no raise on a non-positive minimum, the Lanczos values are kept.
ApproxEigs_noRaise(lazy_tensor, symeig_raises) ==
    IF symeig_raises
    THEN [source |-> "diag", symeig |-> 1, diag |-> 1,
          vals |-> Diag(lazy_tensor)]
    ELSE [source |-> "lanczos", symeig |-> 1, diag |-> 0,
          vals |-> Symeig(lazy_tensor)]

\* Lines 60-65: the try/except around the tridiagonal eigenvalues.
ApproxEigs(lazy_tensor, symeig_raises) ==
    IF symeig_raises
    THEN [source |-> "diag", symeig |-> 1, diag |-> 1,
          vals |-> Diag(lazy_tensor)]
    ELSE IF GlobalMin(Symeig(lazy_tensor)) <= 0
    THEN [source |-> "diag", symeig |-> 1, diag |-> 1,
          vals |-> Diag(lazy_tensor)]
    ELSE [source |-> "lanczos", symeig |-> 1, diag |-> 0,
          vals |-> Symeig(lazy_tensor)]

\* approx_eigs.max(dim=-1)[0], approx_eigs.min(dim=-1)[0]
MaxEig(approx_eigs) == [b \in 1..Len(approx_eigs) |-> SeqMax(approx_eigs[b])]

MinEig(approx_eigs) == [b \in 1..Len(approx_eigs) |-> SeqMin(approx_eigs[b])]

\* k2 = min_eig / max_eig
K2(min_eig, max_eig) ==
    [b \in 1..Len(min_eig) |-> TrueDiv(min_eig[b], max_eig[b])]

\* Line 70: 1.0 / k2.mean().item() on Python floats raises ZeroDivisionError
\* for a zero mean; nan and inf divide without raising.
ConditionNumber(k2) ==
    LET m == Mean(k2)
    IN  CASE m.kind = "nan" -> [raises |-> FALSE, val |-> NaN]
          [] m.kind = "inf" -> [raises |-> FALSE, val |-> Fin(0, 1)]
          [] m.num = 0 -> [raises |-> TRUE, val |-> NaN]
          [] OTHER -> [raises |-> FALSE, val |-> Fin(m.den, m.num)]

\* Lines 79-88: the N shifts of one batch element, real(w^2) at node j.
SubShifts(sub_k2, sub_min_eig, N) ==
    [j \in 1..N |-> [fn |-> "shift", node |-> j, N |-> N,
                     k2 |-> sub_k2, min_eig |-> sub_min_eig]]

\* Lines 91-94: the N weights of one batch element, constant * cn * dn.
SubWeights(sub_k2, sub_min_eig, N) ==
    [j \in 1..N |-> [fn |-> "weight", node |-> j, N |-> N,
                     k2 |-> sub_k2, min_eig |-> sub_min_eig]]

\* Variant: the shifts copied into flat_shifts[:-1, i], the zero row last.
FlatShifts_zeroLast(k2, min_eig, N) ==
    [r \in 1..(N + 1) |->
        [i \in 1..Len(k2) |->
            IF r = N + 1 THEN Zero ELSE SubShifts(k2[i], min_eig[i], N)[r]]]

\* Lines 73, 77, 97: torch.zeros(N + 1, k2.numel()), then for every batch
\* element i flat_shifts[1:, i].copy_(sub_shifts).
FlatShifts(k2, min_eig, N) ==
    [r \in 1..(N + 1) |->
        [i \in 1..Len(k2) |->
            IF r = 1 THEN Zero ELSE SubShifts(k2[i], min_eig[i], N)[r - 1]]]

\* Lines 74, 77, 98: torch.zeros(N, k2.numel()), then
\* flat_weights[:, i].copy_(sub_weights).
FlatWeights(k2, min_eig, N) ==
    [r \in 1..N |->
        [i \in 1..Len(k2) |-> SubWeights(k2[i], min_eig[i], N)[r]]]

\* Lines 100-106: view to (rows, *k2.shape); when k2.shape differs from the
\* output batch shape, every row is expanded and the rows are stacked into a
\* new tensor.
ViewExpand(flat, store, k2_shape, output_batch_shape) ==
    IF k2_shape # output_batch_shape
    THEN Tensor("stack_" \o store, output_batch_shape,
                [r \in 1..Len(flat) |->
                    [o \in 1..Numel(output_batch_shape) |->
                        flat[r][Bidx(Numel(k2_shape), o)]]])
    ELSE Tensor(store, k2_shape, flat)

\* In-place operations of the derivation loop: dzdt.mul_ (93) on the tensor
\* torch.tensor just built, copy_ (97, 98) on views of flat_shifts and
\* flat_weights.
DeriveInplace ==
    { [op |-> "mul_", line |-> 93, store |-> "dzdt"],
      [op |-> "copy_", line |-> 97, store |-> "flat_shifts"],
      [op |-> "copy_", line |-> 98, store |-> "flat_weights"] }

DeriveLog(ae, min_eig, max_eig, k2) ==
    [derived |-> TRUE, lanczos |-> 1, symeig |-> ae.symeig, diag |-> ae.diag,
     ellip |-> 0, eig_source |-> ae.source, min_eig |-> min_eig,
     max_eig |-> max_eig, k2 |-> k2, condition_number |-> NaN,
     written |-> {}, inplace |-> {}, fresh |-> {}]

\* Lines 69-106, given k2: the optional condition-number record, the loop
\* over the batch elements, the view and the expansion.
DeriveFromK2(k2_shape, output_batch_shape, N, stats_on, cn, elog) ==
    IF stats_on /\ cn.raises
    THEN [status |-> "ZeroDivisionError", line |-> 70, weights |-> None,
          shifts |-> None, log |-> elog]
    ELSE [status |-> "ok", line |-> 106,
          weights |-> ViewExpand(FlatWeights(elog.k2, elog.min_eig, N),
                                 "flat_weights", k2_shape,
                                 output_batch_shape),
          shifts |-> ViewExpand(FlatShifts(elog.k2, elog.min_eig, N),
                                "flat_shifts", k2_shape, output_batch_shape),
          log |-> [elog EXCEPT
                    !.ellip = Len(elog.k2),
                    !.condition_number = IF stats_on THEN cn.val ELSE NaN,
                    !.written = IF stats_on THEN {"condition_number"}
                                ELSE {},
                    !.inplace = DeriveInplace,
                    !.fresh = {"flat_shifts", "flat_weights", "dzdt",
                               "sub_shifts"}
                              \cup (IF k2_shape # output_batch_shape
                                    THEN {"stack_flat_shifts",
                                          "stack_flat_weights"}
                                    ELSE {})]]

\* Lines 66-68.
DeriveFromExtremes(lazy_tensor, rhs, N, stats_on, ae, min_eig, max_eig) ==
    DeriveFromK2(lazy_tensor.batch_shape,
                 MulBroadcastShape(lazy_tensor.batch_shape, rhs.batch_shape),
                 N, stats_on, ConditionNumber(K2(min_eig, max_eig)),
                 DeriveLog(ae, min_eig, max_eig, K2(min_eig, max_eig)))

\* Lines 60-67.
DeriveFromEigs(lazy_tensor, rhs, N, stats_on, ae) ==
    DeriveFromExtremes(lazy_tensor, rhs, N, stats_on, ae, MinEig(ae.vals),
                       MaxEig(ae.vals))

\* Lines 35-106.
Derive(lazy_tensor, rhs, N, symeig_raises, stats_on) ==
    IF ~InitVecsExpandOk(lazy_tensor, rhs)
    THEN [status |-> "RuntimeError", line |-> 43, weights |-> None,
          shifts |-> None,
          log |-> [derived |-> TRUE, lanczos |-> 0, symeig |-> 0, diag |-> 0,
                   ellip |-> 0, eig_source |-> "none", min_eig |-> <<>>,
                   max_eig |-> <<>>, k2 |-> <<>>, condition_number |-> NaN,
                   written |-> {}, inplace |-> {}, fresh |-> {}]]
    ELSE DeriveFromEigs(lazy_tensor, rhs, N, stats_on,
                        ApproxEigs(lazy_tensor, symeig_raises))

(***************************************************************************)
(* Shifted solve and result assembly, lines 108-115.                       *)
(***************************************************************************)
\* minres(matmul, rhs, value=-1, shifts=shifts): one solution per shift, in
\* the order of the shifts, broadcast to the output batch shape.
Minres(lazy_tensor, rhs, shifts) ==
    LET out == MulBroadcastShape(lazy_tensor.batch_shape, rhs.batch_shape)
    IN  Tensor("minres", out,
            [r \in 1..Len(shifts.rows) |->
                [o \in 1..Numel(out) |->
                    [fn |-> "solve",
                     elem |-> lazy_tensor.elems[
                                Bidx(Numel(lazy_tensor.batch_shape), o)],
                     rhs |-> rhs.data[Bidx(Numel(rhs.batch_shape), o)],
                     shift |-> shifts.rows[r][
                                Bidx(Numel(shifts.batch_shape), o)],
                     applied |-> 0]]])

\* solves[0]: a view of the first entry along the contour dimension.
NoShiftSolves(solves) == Tensor(solves.store, solves.batch_shape,
                                <<solves.rows[1]>>)

\* Variant: solves[:-1], the zero-shift solve kept and the last one dropped.
ShiftedSolves_dropLast(solves) ==
    Tensor(solves.store, solves.batch_shape,
           SubSeq(solves.rows, 1, Len(solves.rows) - 1))

\* solves[1:]: a view of the remaining entries, order kept.
ShiftedSolves(solves) == Tensor(solves.store, solves.batch_shape,
                                Tail(solves.rows))

\* lazy_tensor._matmul(v) (NonLazyVariable: torch.matmul(tensor, v)): a new
\* tensor, the operator applied once to every entry.
Matmul(lazy_tensor, v) ==
    Tensor("matmul", v.batch_shape,
        [r \in 1..Len(v.rows) |->
            [o \in 1..Len(v.rows[r]) |->
                [v.rows[r][o] EXCEPT !.applied = @ + 1]]])

\* Lines 111-115, given the solver's output.
AssembleFrom(lazy_tensor, inverse, shifts, all) ==
    [minres |-> <<shifts>>,
     no_shift_solves |-> NoShiftSolves(all),
     inverse_solves |-> ShiftedSolves(all),
     solves |-> IF ~inverse THEN Matmul(lazy_tensor, ShiftedSolves(all))
                ELSE ShiftedSolves(all),
     matmul |-> IF ~inverse THEN <<ShiftedSolves(all)>> ELSE <<>>,
     fresh |-> {"minres"} \cup (IF ~inverse THEN {"matmul"} ELSE {})]

\* Lines 110-115.
Assemble(lazy_tensor, rhs, inverse, shifts) ==
    AssembleFrom(lazy_tensor, inverse, shifts,
                 Minres(lazy_tensor, rhs, shifts))

(***************************************************************************)
(* Diagnostics, lines 117-134.                                             *)
(***************************************************************************)
\* lazy_tensor @ no_shift_solves + rhs: a new tensor.
Residual(lazy_tensor, no_shift_solves, rhs) == [store |-> "residual"]

\* Variant: the clamp applied to rhs itself.
RhsNorm_inplace(rhs) == [store |-> rhs.store]

\* rhs.norm(dim=-2, keepdim=True): a new tensor.
RhsNorm(rhs) == [store |-> "rhs_norm"]

\* (no_shift_solves * rhs).sum(dim=-2): a new tensor.
InvQuadRes(no_shift_solves, rhs) == [store |-> "inv_quad_res"]

\* (inverse_solves * weights).sum(dim=0).pow(2).sum(dim=-2): a new tensor.
CiqQuad(inverse_solves, weights) == [store |-> "ciq_quad"]

\* Lines 120-126.
MinresResidualStep(lazy_tensor, no_shift_solves, rhs) ==
    [val |-> [fn |-> "minres_residual",
              shift |-> no_shift_solves.rows[1][1].shift],
     matmul |-> <<no_shift_solves>>,
     inplace |-> { [op |-> "clamp_min_", line |-> 122,
                    store |-> RhsNorm(rhs).store],
                   [op |-> "div_", line |-> 122,
                    store |-> Residual(lazy_tensor, no_shift_solves,
                                       rhs).store] },
     fresh |-> {"residual", "rhs_norm"}]

\* Line 127.
InvQuadResStep(no_shift_solves, rhs) ==
    [inplace |-> { [op |-> "mul_", line |-> 127,
                    store |-> InvQuadRes(no_shift_solves, rhs).store] },
     fresh |-> {"inv_quad_res"}]

\* Lines 128-134; inverse_solves * None raises TypeError.
CiqDiffStep(inverse_solves, weights, no_shift_solves, rhs) ==
    IF IsNone(weights)
    THEN [raises |-> TRUE, val |-> [fn |-> "ciq_diff", nodes |-> 0],
          inplace |-> {}, fresh |-> {}]
    ELSE [raises |-> FALSE,
          val |-> [fn |-> "ciq_diff", nodes |-> Len(weights.rows)],
          inplace |->
            { [op |-> "sub_", line |-> 129,
               store |-> CiqQuad(inverse_solves, weights).store],
              [op |-> "clamp_min_", line |-> 130,
               store |-> InvQuadRes(no_shift_solves, rhs).store],
              [op |-> "div_", line |-> 130,
               store |-> CiqQuad(inverse_solves, weights).store],
              [op |-> "abs_", line |-> 131,
               store |-> CiqQuad(inverse_solves, weights).store] },
          fresh |-> {"ciq_quad"}]

NoDiagnostics ==
    [raises |-> FALSE, writes |-> <<>>, matmul |-> <<>>, inplace |-> {},
     fresh |-> {}, computed |-> 0]

DiagnosticsFrom(r, q, c) ==
    [raises |-> c.raises,
     writes |-> IF c.raises
                THEN << <<"minres_residual", r.val>> >>
                ELSE << <<"minres_residual", r.val>>, <<"ciq_diff", c.val>> >>,
     matmul |-> r.matmul,
     inplace |-> r.inplace \cup q.inplace \cup c.inplace,
     fresh |-> r.fresh \cup q.fresh \cup c.fresh,
     computed |-> IF c.raises THEN 2 ELSE 3]

\* Lines 118-134: nothing when the flag is off.
Diagnostics(stats_on, lazy_tensor, rhs, weights, asm) ==
    IF ~stats_on THEN NoDiagnostics
    ELSE DiagnosticsFrom(
            MinresResidualStep(lazy_tensor, asm.no_shift_solves, rhs),
            InvQuadResStep(asm.no_shift_solves, rhs),
            CiqDiffStep(asm.inverse_solves, weights, asm.no_shift_solves,
                        rhs))

(***************************************************************************)
(* contour_integral_quad, lines 13-136.                                    *)
(***************************************************************************)
NotDerived ==
    [derived |-> FALSE, lanczos |-> 0, symeig |-> 0, diag |-> 0, ellip |-> 0,
     eig_source |-> "none", min_eig |-> <<>>, max_eig |-> <<>>, k2 |-> <<>>,
     condition_number |-> NaN, written |-> {}, inplace |-> {}, fresh |-> {}]

\* Variant: the derivation entered whatever the caller supplied.
RunsDerivation_always(weights, shifts) == TRUE

\* Variant: the derivation entered when either argument is missing.
RunsDerivation_either(weights, shifts) ==
    IF IsNone(shifts) THEN TRUE ELSE IsNone(weights)

\* Line 34: the derivation runs iff shifts is None.
RunsDerivation(weights, shifts) == IsNone(shifts)

Raised(status, line, dlog) ==
    [status |-> status, line |-> line, ret |-> None, writes |-> <<>>,
     log |-> [derive |-> dlog, minres |-> <<>>, assembly_matmul |-> <<>>,
              diag_matmul |-> <<>>, diag_inplace |-> {}, diag_computed |-> 0,
              inplace |-> dlog.inplace, fresh |-> dlog.fresh,
              written |-> {}]]

\* Variant: the condition number recorded on every call.
ConditionNumberWrite_always(dlog) ==
    << <<"condition_number", dlog.condition_number>> >>

ConditionNumberWrite(dlog) ==
    IF "condition_number" \in dlog.written
    THEN << <<"condition_number", dlog.condition_number>> >>
    ELSE <<>>

Finish(d, asm, dg, writes) ==
    [status |-> IF dg.raises THEN "TypeError" ELSE "returned",
     line |-> IF dg.raises THEN 129 ELSE 136,
     ret |-> IF dg.raises THEN None
             ELSE [kind |-> "tuple", solves |-> asm.solves,
                   weights |-> d.weights,
                   no_shift_solves |-> asm.no_shift_solves,
                   shifts |-> d.shifts],
     writes |-> writes,
     log |-> [derive |-> d.log, minres |-> asm.minres,
              assembly_matmul |-> asm.matmul, diag_matmul |-> dg.matmul,
              diag_inplace |-> dg.inplace, diag_computed |-> dg.computed,
              inplace |-> d.log.inplace \cup dg.inplace,
              fresh |-> d.log.fresh \cup asm.fresh \cup dg.fresh,
              written |-> {writes[i][1] : i \in 1..Len(writes)}]]

\* Lines 117-136, given the assembled solves.
DiagnoseAndReturn(lazy_tensor, rhs, stats_on, d, asm) ==
    Finish(d, asm, Diagnostics(stats_on, lazy_tensor, rhs, d.weights, asm),
           ConditionNumberWrite(d.log)
           \o Diagnostics(stats_on, lazy_tensor, rhs, d.weights, asm).writes)

\* Lines 108-136, given the shifts and weights in force.
SolveAndReturn(lazy_tensor, rhs, inverse, stats_on, d) ==
    IF d.status # "ok" THEN Raised(d.status, d.line, d.log)
    ELSE DiagnoseAndReturn(lazy_tensor, rhs, stats_on, d,
                           Assemble(lazy_tensor, rhs, inverse, d.shifts))

\* The whole call; symeig_raises is whether lanczos_mat.symeig() raises,
\* stats_on is settings.record_ciq_stats.on() during the call.
contour_integral_quad(lazy_tensor, rhs, inverse, weights, shifts, num_contour_quadrature, symeig_raises, stats_on) ==
    SolveAndReturn(lazy_tensor, rhs, inverse, stats_on,
        IF RunsDerivation(weights, shifts)
        THEN Derive(lazy_tensor, rhs, num_contour_quadrature, symeig_raises,
                    stats_on)
        ELSE [status |-> "ok", line |-> 34, weights |-> weights,
              shifts |-> shifts, log |-> NotDerived])

(***************************************************************************)
(* The process: settings.record_ciq_stats and the calls made against it.   *)
(***************************************************************************)
VARIABLES stats, pc, call, out

vars == <<stats, pc, call, out>>

Unset == [fn |-> "unset"]

NoCall == [kind |-> "none"]

StatFields == {"condition_number", "minres_residual", "ciq_diff"}

\* What a field of the record holds is kept up to the call that wrote it:
\* the value of the call being made (or just made), or the value of a call
\* that has ended.  The values themselves are in the log of the call.
ThisCall == [fn |-> "value", of |-> "this_call"]

EarlierCall == [fn |-> "value", of |-> "earlier_call"]

\* The attribute assignments settings.record_ciq_stats.<field> = value, in
\* program order.
RECURSIVE ApplyWrites(_, _)
ApplyWrites(st, writes) ==
    IF writes = <<>> THEN st
    ELSE ApplyWrites([st EXCEPT ![Head(writes)[1]] = ThisCall], Tail(writes))

\* Once the call has ended, what it wrote is the value of an earlier call.
Aged(st) ==
    [f \in DOMAIN st |->
        IF f = "on" THEN st[f]
        ELSE IF st[f] = ThisCall THEN EarlierCall ELSE st[f]]

\* Tensors a caller passes for shifts and weights: one row per contour
\* entry, of the output batch shape, all entries distinct.
UserShifts(m, first, shape) ==
    Tensor("arg_shifts", shape,
        [r \in 1..(m + 1) |->
            [o \in 1..Numel(shape) |->
                [fn |-> "const",
                 val |-> IF r = 1 THEN first ELSE 0 - (10 * r + o)]]])

UserWeights(m, shape) ==
    Tensor("arg_weights", shape,
        [r \in 1..m |->
            [o \in 1..Numel(shape) |->
                [fn |-> "const", val |-> 100 + 10 * r + o]]])

Init ==
    /\ stats = [on |-> FALSE, condition_number |-> Unset,
                minres_residual |-> Unset, ciq_diff |-> Unset]
    /\ pc = "idle"
    /\ call = NoCall
    /\ out = NoCall

\* with settings.record_ciq_stats(state): entering or leaving flips the flag.
RecordCiqStats ==
    /\ pc = "idle"
    /\ stats' = [stats EXCEPT !.on = ~@]
    /\ UNCHANGED <<pc, call, out>>

CallContourIntegralQuad ==
    /\ pc = "idle"
    /\ \E lazy_tensor \in LazyTensors, rshape \in BatchShapes,
          inverse \in BOOLEAN, N \in 1..MaxQuad :
        /\ Broadcastable(lazy_tensor.batch_shape, rshape)
        /\ LET oshape == MulBroadcastShape(lazy_tensor.batch_shape, rshape)
           IN  \E shifts \in {None} \cup
                             {UserShifts(N, f, oshape) : f \in {0, 7}},
                  weights \in {None, UserWeights(N, oshape)},
                  symeig_raises \in BOOLEAN :
                /\ symeig_raises => IsNone(shifts)
                /\ LET res == contour_integral_quad(lazy_tensor, Rhs(rshape),
                                  inverse, weights, shifts, N, symeig_raises,
                                  stats.on)
                   IN  /\ call' = [kind |-> "call",
                                   lazy_tensor |-> lazy_tensor,
                                   rhs |-> Rhs(rshape), inverse |-> inverse,
                                   weights |-> weights, shifts |-> shifts,
                                   num_contour_quadrature |-> N,
                                   symeig_raises |-> symeig_raises,
                                   stats_on |-> stats.on]
                       /\ out' = res
                       /\ stats' = ApplyWrites(stats, res.writes)
                       /\ pc' = "returned"

\* The caller takes the returned tuple (or the exception) and goes on.
Resume ==
    /\ pc = "returned"
    /\ pc' = "idle"
    /\ call' = NoCall
    /\ out' = NoCall
    /\ stats' = Aged(stats)

Next == RecordCiqStats \/ CallContourIntegralQuad \/ Resume

Spec == Init /\ [][Next]_vars

(***************************************************************************)
(* Properties.                                                             *)
(***************************************************************************)
Called == pc = "returned"

Returned == Called /\ out.status = "returned"

DerivesShifts == Called /\ IsNone(call.shifts)

OutputBatchShape ==
    MulBroadcastShape(call.lazy_tensor.batch_shape, call.rhs.batch_shape)

\* The tridiagonal eigenvalues were asked for and rejected: symeig raised,
\* or the minimum it gave is not positive.
LanczosRejected ==
    /\ DerivesShifts
    /\ out.log.derive.symeig = 1
    /\ IF call.symeig_raises THEN TRUE
       ELSE GlobalMin(Symeig(call.lazy_tensor)) <= 0

DiagNonPositive == GlobalMin(Diag(call.lazy_tensor)) <= 0

Touched(ops) == {o.store : o \in ops}

CallerStores == {"rhs", "arg_shifts", "arg_weights"}

\* C2: when the engine derives the shifts, the returned shifts have
\* num_contour_quadrature + 1 entries along the contour dimension, each of
\* the output batch shape, and entry 0 is zero for every batch element,
\* whichever eigenvalue estimate was used and after the broadcast.
C2_ZeroShiftFirst ==
    (Returned /\ DerivesShifts) =>
        LET sh == out.ret.shifts
        IN  /\ Len(sh.rows) = call.num_contour_quadrature + 1
            /\ sh.batch_shape = OutputBatchShape
            /\ \A r \in 1..Len(sh.rows) :
                    Len(sh.rows[r]) = Numel(OutputBatchShape)
            /\ \A o \in 1..Numel(OutputBatchShape) : sh.rows[1][o] = Zero
            /\ \A r \in 2..Len(sh.rows) :
                    \A o \in 1..Numel(OutputBatchShape) :
                        sh.rows[r][o] # Zero

\* A derived call on the diagonal fallback whose shifts were broadcast from
\* an unbatched operator to a batched right-hand side.
C2_Witness ==
    /\ Returned /\ DerivesShifts
    /\ out.log.derive.eig_source = "diag"
    /\ call.lazy_tensor.batch_shape = <<>>
    /\ Numel(OutputBatchShape) = MaxBatch
    /\ call.num_contour_quadrature = MaxQuad

\* C3: with shifts and weights supplied, the derivation is skipped: no
\* Lanczos run, no eigen-decomposition, no diag(), no elliptic-function
\* iteration; the solver gets the caller's shifts and the call returns the
\* caller's weights and shifts.
C3_PrecomputedSkipsDerivation ==
    (Called /\ ~IsNone(call.shifts) /\ ~IsNone(call.weights)) =>
        /\ ~out.log.derive.derived
        /\ out.log.derive.lanczos = 0
        /\ out.log.derive.symeig = 0
        /\ out.log.derive.diag = 0
        /\ out.log.derive.ellip = 0
        /\ out.log.minres = <<call.shifts>>
        /\ out.status = "returned"
        /\ out.ret.weights = call.weights
        /\ out.ret.shifts = call.shifts

C3_Witness ==
    /\ Returned /\ ~IsNone(call.shifts) /\ ~IsNone(call.weights)
    /\ call.stats_on
    /\ Numel(call.lazy_tensor.batch_shape) = MaxBatch

\* C4: whenever the tridiagonal eigen-decomposition fails or gives a
\* non-positive minimum, min_eig and max_eig come from diag(), the call goes
\* on through the solve and the assembly, and no error reaches the caller.
C4_FallbackAlwaysReturns ==
    LanczosRejected =>
        /\ out.log.derive.eig_source = "diag"
        /\ out.log.derive.min_eig = MinEig(Diag(call.lazy_tensor))
        /\ out.log.derive.max_eig = MaxEig(Diag(call.lazy_tensor))
        /\ Len(out.log.minres) = 1
        /\ out.status = "returned"

\* C5 as stated: when the Lanczos estimate is rejected and the diagonal has
\* a non-positive minimum too, the call raises and neither computes shifts
\* nor invokes the solver nor returns.
C5_ExhaustedFallbackRaises ==
    (LanczosRejected /\ DiagNonPositive) =>
        /\ out.status # "returned"
        /\ out.log.derive.ellip = 0
        /\ out.log.minres = <<>>

\* C5 amended: in that case the engine makes no check of the diagonal
\* values: min_eig and max_eig are taken from them and the call derives the
\* shifts, invokes the solver once and returns, unless the diagnostics flag
\* is on and the mean of k2 is zero, where line 70 raises ZeroDivisionError
\* before any shift is computed.
C5_ExhaustedFallbackGoesOn ==
    (LanczosRejected /\ DiagNonPositive) =>
        /\ out.log.derive.eig_source = "diag"
        /\ out.log.derive.min_eig = MinEig(Diag(call.lazy_tensor))
        /\ out.log.derive.max_eig = MaxEig(Diag(call.lazy_tensor))
        /\ IF call.stats_on /\ Mean(out.log.derive.k2) = Fin(0, 1)
           THEN /\ out.status = "ZeroDivisionError"
                /\ out.line = 70
                /\ out.log.derive.ellip = 0
                /\ out.log.minres = <<>>
           ELSE /\ out.status = "returned"
                /\ out.log.derive.ellip =
                        Numel(call.lazy_tensor.batch_shape)
                /\ out.log.minres = <<out.ret.shifts>>

\* A call that returns although a diagonal value is negative.
C5_Witness ==
    /\ LanczosRejected /\ DiagNonPositive
    /\ out.status = "returned"
    /\ \E b \in 1..Len(out.log.derive.min_eig) :
            out.log.derive.min_eig[b] < 0

\* The call made while the flag was off computed no diagnostic and left the
\* three fields as they were.
OffCallWritesNothing ==
    (Called /\ ~call.stats_on) =>
        /\ out.log.diag_computed = 0
        /\ out.log.diag_matmul = <<>>
        /\ out.log.written = {}
        /\ out.writes = <<>>
        /\ \A f \in StatFields : stats[f] # ThisCall

\* C6 as stated: a call with the flag off computes no diagnostic and leaves
\* the three fields unchanged; a call with the flag on overwrites each of
\* the three fields with its own value, shifts derived or precomputed.
C6_EveryFieldOverwritten ==
    /\ OffCallWritesNothing
    /\ (Returned /\ call.stats_on) =>
            \A f \in StatFields : stats[f] = ThisCall

\* C6 amended: a call with the flag off computes no diagnostic and leaves
\* the three fields unchanged.  A call with the flag on that returns
\* overwrites minres_residual and ciq_diff with its own values, and
\* condition_number only if it derives its shifts: with precomputed shifts
\* condition_number keeps what an earlier call left.  A call that raises
\* before line 120 writes nothing; one that raises at line 129 has written
\* minres_residual only.
C6_WritePolicy ==
    /\ OffCallWritesNothing
    /\ (Called /\ call.stats_on) =>
        CASE out.status = "returned" ->
                /\ stats.minres_residual = ThisCall
                /\ stats.ciq_diff = ThisCall
                /\ (stats.condition_number = ThisCall) <=> IsNone(call.shifts)
                /\ out.log.written = {f \in StatFields : stats[f] = ThisCall}
          [] out.status = "TypeError" ->
                /\ stats.minres_residual = ThisCall
                /\ stats.ciq_diff # ThisCall
                /\ stats.condition_number # ThisCall
          [] OTHER -> \A f \in StatFields : stats[f] # ThisCall

\* A call with the flag on and precomputed shifts after which
\* condition_number still holds the value of an earlier call.
C6_Witness ==
    /\ Returned /\ call.stats_on /\ ~IsNone(call.shifts)
    /\ stats.condition_number = EarlierCall
    /\ stats.minres_residual = ThisCall
    /\ stats.ciq_diff = ThisCall

\* The operator and right-hand side slices of output batch element o.
SliceOperator(o) ==
    [batch_shape |-> <<>>,
     elems |-> <<call.lazy_tensor.elems[
                    Bidx(Numel(call.lazy_tensor.batch_shape), o)]>>]

SliceRhs(o) ==
    [store |-> "rhs", batch_shape |-> <<>>,
     data |-> <<call.rhs.data[Bidx(Numel(call.rhs.batch_shape), o)]>>]

\* The independent call on slice o, with the other arguments of the call.
SliceCall(o) ==
    contour_integral_quad(SliceOperator(o), SliceRhs(o), call.inverse,
                          call.weights, call.shifts,
                          call.num_contour_quadrature, call.symeig_raises,
                          call.stats_on)

SameSlice(batched, o, single) ==
    /\ Len(batched.rows) = Len(single.rows)
    /\ \A r \in 1..Len(batched.rows) : batched.rows[r][o] = single.rows[r][1]

\* C7: for a batched operator and a right-hand side that broadcasts against
\* it, the outputs have the output batch shape and every batch slice of the
\* result, the shifts and the weights equals what the independent call on
\* the operator slice and rhs slice gives, on the Lanczos and on the
\* fallback path alike.
C7_BatchSlicesIndependent ==
    (/\ Returned /\ DerivesShifts /\ ~call.symeig_raises
     /\ call.lazy_tensor.batch_shape # <<>>) =>
        /\ out.ret.solves.batch_shape = OutputBatchShape
        /\ out.ret.shifts.batch_shape = OutputBatchShape
        /\ out.ret.weights.batch_shape = OutputBatchShape
        /\ \A o \in 1..Numel(OutputBatchShape) :
            /\ SliceCall(o).status = "returned"
            /\ SameSlice(out.ret.shifts, o, SliceCall(o).ret.shifts)
            /\ SameSlice(out.ret.weights, o, SliceCall(o).ret.weights)
            /\ SameSlice(out.ret.solves, o, SliceCall(o).ret.solves)
            /\ SameSlice(out.ret.no_shift_solves, o,
                         SliceCall(o).ret.no_shift_solves)

\* C8: the solver is invoked once with all the shifts; its entry 0 is the
\* unshifted solve and is not among the returned solves; the returned
\* solves are the other entries in the order of shifts[1:], each pairing
\* with the weight of the same index; with inverse=True they are as solved,
\* with inverse=False the operator was applied once to each and, in the
\* assembly, to nothing else.
C8_ResultAssembly ==
    Returned =>
        LET sh == out.ret.shifts
            sv == out.ret.solves
            ns == out.ret.no_shift_solves
            n == Numel(OutputBatchShape)
        IN  /\ out.log.minres = <<sh>>
            /\ Len(ns.rows) = 1
            /\ \A o \in 1..n :
                /\ ns.rows[1][o].shift =
                        sh.rows[1][Bidx(Numel(sh.batch_shape), o)]
                /\ ns.rows[1][o].applied = 0
            /\ Len(sv.rows) = Len(sh.rows) - 1
            /\ \A i \in 1..Len(sv.rows) : \A o \in 1..n :
                /\ sv.rows[i][o].shift =
                        sh.rows[i + 1][Bidx(Numel(sh.batch_shape), o)]
                /\ sv.rows[i][o].shift # ns.rows[1][o].shift
                /\ sv.rows[i][o].applied = IF call.inverse THEN 0 ELSE 1
                /\ IsNone(call.shifts) =>
                    /\ sv.rows[i][o].shift.node = i
                    /\ out.ret.weights.rows[i][o].node = i
                    /\ out.ret.weights.rows[i][o].k2 = sv.rows[i][o].shift.k2
            /\ IsNone(out.ret.weights) \/
                    Len(out.ret.weights.rows) = Len(sv.rows)
            /\ IF call.inverse
               THEN out.log.assembly_matmul = <<>>
               ELSE /\ Len(out.log.assembly_matmul) = 1
                    /\ out.log.assembly_matmul[1].rows =
                            [i \in 1..Len(sv.rows) |->
                                [o \in 1..n |->
                                    [sv.rows[i][o] EXCEPT !.applied = 0]]]

C8_Witness ==
    /\ Returned /\ ~call.inverse /\ DerivesShifts
    /\ call.num_contour_quadrature = MaxQuad
    /\ Numel(OutputBatchShape) = MaxBatch
    /\ out.ret.solves.rows[MaxQuad][MaxBatch].applied = 1

\* C9: no in-place operation of a call acts on the caller's rhs, shifts or
\* weights, every one acts on a tensor allocated in that call, and the
\* in-place operations of the diagnostics touch none of the tensors the
\* call returns.
C9_InputsReadOnly ==
    Called =>
        /\ Touched(out.log.inplace) \cap CallerStores = {}
        /\ call.rhs.store \notin Touched(out.log.inplace)
        /\ Touched(out.log.inplace) \subseteq out.log.fresh
        /\ out.log.fresh \cap CallerStores = {}
        /\ Returned =>
            /\ out.ret.solves.store \notin Touched(out.log.diag_inplace)
            /\ out.ret.no_shift_solves.store
                    \notin Touched(out.log.diag_inplace)
            /\ out.ret.shifts.store \notin Touched(out.log.diag_inplace)
            /\ IF IsNone(out.ret.weights) THEN TRUE
               ELSE out.ret.weights.store
                        \notin Touched(out.log.diag_inplace)
            /\ IF IsNone(call.shifts) THEN TRUE
               ELSE out.ret.shifts = call.shifts

\* A call on the caller's own shifts and weights with the diagnostics on
\* and inverse=True, where the returned solves are views of the solver's
\* output.
C9_Witness ==
    /\ Returned /\ call.stats_on /\ call.inverse
    /\ ~IsNone(call.shifts) /\ ~IsNone(call.weights)
    /\ out.ret.shifts.store = "arg_shifts"
    /\ out.ret.weights.store = "arg_weights"
    /\ Cardinality(out.log.diag_inplace) = 7

\* C10: the derivation runs iff shifts is None, whatever weights is: (a)
\* with weights supplied and shifts None the caller's weights are dropped
\* and the weights and shifts returned are the derived ones; (b) with
\* shifts supplied and weights None the derivation is skipped, the weights
\* returned are None, and the call returns iff the diagnostics are off (with
\* them on, line 129 raises TypeError).
C10_DerivationDependsOnShiftsOnly ==
    Called =>
        /\ out.log.derive.derived <=> IsNone(call.shifts)
        /\ (Returned /\ IsNone(call.shifts) /\ ~IsNone(call.weights)) =>
            /\ out.ret.weights # call.weights
            /\ out.ret.weights.store # "arg_weights"
            /\ out.ret.weights =
                 contour_integral_quad(call.lazy_tensor, call.rhs,
                    call.inverse, None, None, call.num_contour_quadrature,
                    call.symeig_raises, call.stats_on).ret.weights
            /\ out.ret.shifts.rows[1][1] = Zero
        /\ (~IsNone(call.shifts) /\ IsNone(call.weights)) =>
            /\ out.log.derive.lanczos = 0
            /\ (out.status = "returned") <=> ~call.stats_on
            /\ call.stats_on => (out.status = "TypeError" /\ out.line = 129)
            /\ Returned => (IsNone(out.ret.weights)
                            /\ out.ret.shifts = call.shifts)

\* Shifts supplied, weights None, diagnostics on: the call raises at the
\* only place that reads weights.
C10_Witness ==
    /\ Called /\ ~IsNone(call.shifts) /\ IsNone(call.weights)
    /\ call.stats_on
    /\ out.status = "TypeError"

====
